---- MODULE Spec2Model ----
(***************************************************************************)
(* Model of the Windows toast-notification plugin of shared_clipboard      *)
(* (client/windows/runner/windows_notifications_plugin.{h,cpp}, the        *)
(* native-backed version of the component, lines 192-432 of the .cpp).     *)
(*                                                                         *)
(* The plugin object holds the notifier, the current notification, its     *)
(* tag and the initialized flag.  HandleMethodCall dispatches a named      *)
(* method with an argument payload to the five operations.  The native     *)
(* notification service (WinRT) is modelled by the calls the plugin makes  *)
(* to it, recorded in native_calls with the outcome of each call; a native *)
(* call may fail (throw), chosen nondeterministically per call.            *)
(***************************************************************************)
EXTENDS Integers, Sequences, FiniteSets, Bags, TLC

(***************************************************************************)
(* Bounds of the model.                                                    *)
(***************************************************************************)
MaxCalls == 4      \* native calls recorded in one run (the scenario runs to its end)
MaxTick == 1       \* the tick counter runs over 0..MaxTick

(***************************************************************************)
(* Values.                                                                 *)
(***************************************************************************)
NullHandle == 0                 \* nullptr of a WinRT object reference
Notifier == 1                   \* the notifier created for "SharedClipboard"

\* flutter::EncodableValue: a variant; only its alternative matters to std::get
StrVal(str) == [type |-> "string", s |-> str, n |-> 0]
IntVal(num) == [type |-> "int", s |-> "", n |-> num]
Absent == [type |-> "absent", s |-> "", n |-> 0]

\* texts containing a character that is markup in XML
XmlSpecial == {"<50%"}

\* the argument payload of a method call: a map, or any other alternative
NotAMap == [is_map |-> FALSE, map |-> << >>]
EmptyMap == [is_map |-> TRUE, map |-> << >>]

\* the map holding exactly the keys of f whose value is not Absent
MakeMap(f) ==
  [is_map |-> TRUE,
   map |-> [k \in {j \in DOMAIN f : f[j] # Absent} |-> f[k]]]

(***************************************************************************)
(* Inputs of the model: the payloads a caller sends.                       *)
(***************************************************************************)
Titles == {"Download"}
CompletionTitles == {"Done"}
Subtitles == {"file.zip"}
Progresses == {10, 55}
OutOfRange == {150}             \* an int the percentage scale does not hold
Statuses == {"Halfway", "<50%"}
Messages == {"Saved"}
WrongInt == IntVal(7)           \* an integer where a string is expected
WrongStr == StrVal("ten")       \* a string where an integer is expected

ShowBase ==
  [title |-> StrVal("Download"), subtitle |-> StrVal("file.zip"),
   progress |-> IntVal(10), status |-> StrVal("Halfway"),
   progressLabel |-> StrVal("Progress")]

\* the optional keys are left out, or given: every progress without a status,
\* every status with the progress of ShowBase
ShowWellFormed ==
  { [title |-> StrVal(t), subtitle |-> StrVal(st), progress |-> IntVal(p),
     status |-> Absent, progressLabel |-> Absent] :
      t \in Titles, st \in Subtitles, p \in Progresses \cup OutOfRange }
  \cup { [ShowBase EXCEPT !.status = StrVal(x)] : x \in Statuses }

ShowMalformed ==
  { [ShowBase EXCEPT ![k] = v] :
      k \in {"title", "subtitle", "progress"}, v \in {Absent, WrongInt, WrongStr} }
  \cup { [ShowBase EXCEPT ![k] = WrongInt] : k \in {"status", "progressLabel"} }

ShowArgs == {NotAMap} \cup {MakeMap(f) : f \in ShowWellFormed \cup ShowMalformed}

UpdateWellFormed ==
  { [progress |-> IntVal(p), status |-> Absent] : p \in Progresses \cup OutOfRange }
  \cup { [progress |-> IntVal(55), status |-> StrVal(x)] : x \in Statuses }

UpdateMalformed ==
  { [progress |-> v, status |-> StrVal("Halfway")] : v \in {Absent, WrongStr} }
  \cup { [progress |-> IntVal(55), status |-> WrongInt] }

UpdateArgs == {NotAMap} \cup {MakeMap(f) : f \in UpdateWellFormed \cup UpdateMalformed}

CompletionWellFormed ==
  { [title |-> StrVal(t), subtitle |-> StrVal(st), message |-> m] :
      t \in CompletionTitles, st \in Subtitles,
      m \in {Absent} \cup {StrVal(x) : x \in Messages} }

CompletionBase ==
  [title |-> StrVal("Done"), subtitle |-> StrVal("file.zip"),
   message |-> StrVal("Saved")]

CompletionMalformed ==
  { [CompletionBase EXCEPT ![k] = v] :
      k \in {"title", "subtitle"}, v \in {Absent, WrongInt} }
  \cup { [CompletionBase EXCEPT !.message = WrongInt] }

CompletionArgs ==
  {NotAMap} \cup {MakeMap(f) : f \in CompletionWellFormed \cup CompletionMalformed}

NoArgs == {NotAMap, EmptyMap}   \* what a caller sends with initialize and hideToast

UnknownMethods == {"showToast"}

\* outcomes of the native calls one operation can make
\*   hide_ok : ToastNotifier::Hide returns normally
\*   fail    : the step of building and showing a toast that throws, if any:
\*             "build" is the construction of the XmlDocument or of the
\*             ToastNotification, "show" is ToastNotifier::Show
FailPoints == {"none", "build", "show"}
Envs == [hide_ok : BOOLEAN, fail : FailPoints]

(***************************************************************************)
(* State.                                                                  *)
(***************************************************************************)
VARIABLES
  initialized_,           \* bool initialized_
  toast_notifier_,        \* ToastNotifier toast_notifier_{nullptr}
  current_notification_,  \* ToastNotification current_notification_{nullptr}
  current_tag_,           \* std::string current_tag_
  native_calls,           \* the calls made to the native service, in order
  next_handle,            \* identity of the next ToastNotification object created
  tags_assigned,          \* the tags given to a notification so far, with their number
  tick,                   \* value GetTickCount64() returns
  last,                   \* the last method call: its result and the state before it
  shown,                  \* title and subtitle of the most recent progress toast asked for
  scenario,               \* number of steps of the scenario done, or Off
  threads                 \* where each thread stands inside HandleMethodCall

vars == << initialized_, toast_notifier_, current_notification_, current_tag_,
           native_calls, next_handle, tags_assigned, tick, last, shown, scenario,
           threads >>

(***************************************************************************)
(* The native service boundary: one record per call.                       *)
(***************************************************************************)
\* native_calls keeps, of every call, the operation, the object it is about, the
\* kind of toast and whether it returned normally; the markup and the tag of the
\* toast handed to Show are kept for the last method call only (last.submitted)
NoXml == [kind |-> "none", text |-> << >>, progress |-> << >>]
NoToast == [xml |-> NoXml, tag |-> ""]

AcquireCall(ok) == [op |-> "acquire", handle |-> Notifier, kind |-> "none", ok |-> ok]
RetractCall(h, ok) == [op |-> "retract", handle |-> h, kind |-> "none", ok |-> ok]
SubmitCall(h, xml, ok) == [op |-> "submit", handle |-> h, kind |-> xml.kind, ok |-> ok]

\* the plugin object and the native service as one value, so that the
\* operations compose as the member functions call each other; submitted is the
\* toast the method call under way has handed to ToastNotifier::Show
Session ==
  [initialized_ |-> initialized_, toast_notifier_ |-> toast_notifier_,
   current_notification_ |-> current_notification_, current_tag_ |-> current_tag_,
   native_calls |-> native_calls, submitted |-> NoToast,
   next_handle |-> next_handle, tags_assigned |-> tags_assigned]

(***************************************************************************)
(* Helpers of the plugin.                                                  *)
(***************************************************************************)
\* MultiByteToWideChar(CP_UTF8): every ASCII character maps to the code unit
\* of the same value; the empty string is returned early
StringToWString(str) == IF str = "" THEN "" ELSE str

CreateProgressToastXml(title, subtitle, progress, status, progressLabel) ==
  [kind |-> "progress",
   text |-> << StringToWString(title), StringToWString(subtitle),
               StringToWString(status) >>,
   progress |-> << [title |-> StringToWString(progressLabel),
                    value |-> [num |-> progress, den |-> 100],
                    valueStringOverride |-> ToString(progress) \o "%",
                    status |-> StringToWString(status)] >>]

CreateCompletionToastXml(title, subtitle, message) ==
  [kind |-> "completion",
   text |-> << StringToWString(title), StringToWString(subtitle),
               StringToWString(message) >>,
   progress |-> << >>]

\* XmlDocument::LoadXml throws on markup that is not well formed; the texts
\* are written into the markup unescaped
LoadXml(xml) ==
  /\ \A i \in DOMAIN xml.text : xml.text[i] \notin XmlSpecial
  /\ \A i \in DOMAIN xml.progress :
        /\ xml.progress[i].title \notin XmlSpecial
        /\ xml.progress[i].status \notin XmlSpecial

\* "progress_" + std::to_string(GetTickCount64())
MakeTag(t) == "progress_" \o ToString(t)

(***************************************************************************)
(* The operations of the plugin, as functions of the session.  Each        *)
(* returns the session after the call and whether it threw.                *)
(***************************************************************************)
Returned(s) == [s |-> s, threw |-> FALSE, what |-> ""]
Threw(s, what) == [s |-> s, threw |-> TRUE, what |-> what]

\* Initialize as the state machine of the specification draws it: a successful
\* call also drops the current notification
Initialize_DropsNotification(s, acquire_ok) ==
  LET s1 == [s EXCEPT !.native_calls = Append(@, AcquireCall(acquire_ok))]
  IN IF acquire_ok
       THEN Returned([s1 EXCEPT !.toast_notifier_ = Notifier, !.initialized_ = TRUE,
                                !.current_notification_ = NullHandle,
                                !.current_tag_ = ""])
       ELSE Threw([s1 EXCEPT !.initialized_ = FALSE],
                  "Failed to initialize Windows notifications")

\* Initialize leaving initialized_ as it was when the acquisition fails
Initialize_KeepsFlagOnFailure(s, acquire_ok) ==
  LET s1 == [s EXCEPT !.native_calls = Append(@, AcquireCall(acquire_ok))]
  IN IF acquire_ok
       THEN Returned([s1 EXCEPT !.toast_notifier_ = Notifier, !.initialized_ = TRUE])
       ELSE Threw(s1, "Failed to initialize Windows notifications")

Initialize(s, acquire_ok) ==
  LET s1 == [s EXCEPT !.native_calls = Append(@, AcquireCall(acquire_ok))]
  IN IF acquire_ok
       THEN Returned([s1 EXCEPT !.toast_notifier_ = Notifier, !.initialized_ = TRUE])
       ELSE Threw([s1 EXCEPT !.initialized_ = FALSE],
                  "Failed to initialize Windows notifications")

\* HideToast forgetting the notification without asking the notifier to hide it
HideToast_ForgetsOnly(s, hide_ok) ==
  IF s.current_notification_ # NullHandle /\ s.toast_notifier_ # NullHandle
    THEN [s EXCEPT !.current_notification_ = NullHandle, !.current_tag_ = ""]
    ELSE s

\* HideToast clearing the fields inside the try block, after Hide
HideToast_KeepsOnFailure(s, hide_ok) ==
  IF s.current_notification_ # NullHandle /\ s.toast_notifier_ # NullHandle
    THEN IF hide_ok
           THEN [s EXCEPT !.native_calls =
                            Append(@, RetractCall(s.current_notification_, TRUE)),
                          !.current_notification_ = NullHandle,
                          !.current_tag_ = ""]
           ELSE [s EXCEPT !.native_calls =
                            Append(@, RetractCall(s.current_notification_, FALSE))]
    ELSE s

\* HideToast clearing the notification and leaving the tag
HideToast_KeepsTag(s, hide_ok) ==
  IF s.current_notification_ # NullHandle /\ s.toast_notifier_ # NullHandle
    THEN [s EXCEPT !.native_calls = Append(@, RetractCall(s.current_notification_, hide_ok)),
                   !.current_notification_ = NullHandle]
    ELSE s

HideToast(s, hide_ok) ==
  IF s.current_notification_ # NullHandle /\ s.toast_notifier_ # NullHandle
    THEN [s EXCEPT !.native_calls = Append(@, RetractCall(s.current_notification_, hide_ok)),
                   !.current_notification_ = NullHandle,
                   !.current_tag_ = ""]
    ELSE s

\* the try block of ShowProgressToast without its call of HideToast
ShowPath_SkipsHide(s, title, subtitle, progress, status, progressLabel, env, now) ==
  LET xml == CreateProgressToastXml(title, subtitle, progress, status, progressLabel)
      h == s.next_handle
      s2 == [s EXCEPT !.current_notification_ = h,
                      !.next_handle = h + 1,
                      !.current_tag_ = MakeTag(now),
                      !.tags_assigned = @ (+) SetToBag({MakeTag(now)})]
      s3 == [s2 EXCEPT !.native_calls = Append(@, SubmitCall(h, xml, env.fail # "show")),
                       !.submitted = [xml |-> xml, tag |-> s2.current_tag_]]
  IN IF ~LoadXml(xml) \/ env.fail = "build"
       THEN Threw(s, "Failed to show progress toast")
     ELSE IF env.fail = "show"
       THEN Threw(s3, "Failed to show progress toast")
     ELSE Returned(s3)

\* the try block of ShowProgressToast
ShowPath(s, title, subtitle, progress, status, progressLabel, env, now) ==
  LET s1 == HideToast(s, env.hide_ok)
      xml == CreateProgressToastXml(title, subtitle, progress, status, progressLabel)
      h == s1.next_handle
      s2 == [s1 EXCEPT !.current_notification_ = h,
                       !.next_handle = h + 1,
                       !.current_tag_ = MakeTag(now),
                       !.tags_assigned = @ (+) SetToBag({MakeTag(now)})]
      s3 == [s2 EXCEPT !.native_calls = Append(@, SubmitCall(h, xml, env.fail # "show")),
                       !.submitted = [xml |-> xml, tag |-> s2.current_tag_]]
  IN IF ~LoadXml(xml) \/ env.fail = "build"
       THEN Threw(s1, "Failed to show progress toast")
     ELSE IF env.fail = "show"
       THEN Threw(s3, "Failed to show progress toast")
     ELSE Returned(s3)

\* ShowProgressToast returning silently when not initialized, as the other
\* operations do
ShowProgressToast_SilentWhenUninitialized(s, title, subtitle, progress, status, progressLabel, env, now) ==
  IF ~s.initialized_
    THEN Returned(s)
    ELSE ShowPath(s, title, subtitle, progress, status, progressLabel, env, now)

ShowProgressToast(s, title, subtitle, progress, status, progressLabel, env, now) ==
  IF ~s.initialized_
    THEN Threw(s, "Windows notifications not initialized")
    ELSE ShowPath(s, title, subtitle, progress, status, progressLabel, env, now)

\* UpdateProgress failing loudly when not initialized, as ShowProgressToast does
UpdateProgress_ThrowsWhenUninitialized(s, progress, status, env, now) ==
  IF ~s.initialized_
    THEN Threw(s, "Windows notifications not initialized")
  ELSE IF s.current_notification_ = NullHandle
    THEN Returned(s)
    ELSE Returned(ShowProgressToast(s, "File Download", "Updating...", progress,
                                    status, "Downloaded", env, now).s)

\* UpdateProgress testing initialized_ alone
UpdateProgress_IgnoresActive(s, progress, status, env, now) ==
  IF ~s.initialized_
    THEN Returned(s)
    ELSE Returned(ShowProgressToast(s, "File Download", "Updating...", progress,
                                    status, "Downloaded", env, now).s)

\* UpdateProgress without its try block: what ShowProgressToast throws escapes
UpdateProgress_Rethrows(s, progress, status, env, now) ==
  IF ~s.initialized_ \/ s.current_notification_ = NullHandle
    THEN Returned(s)
    ELSE ShowProgressToast(s, "File Download", "Updating...", progress,
                           status, "Downloaded", env, now)

\* UpdateProgress showing a placeholder status as it shows a placeholder title
UpdateProgress_DropsStatus(s, progress, status, env, now) ==
  IF ~s.initialized_ \/ s.current_notification_ = NullHandle
    THEN Returned(s)
    ELSE Returned(ShowProgressToast(s, "File Download", "Updating...", progress,
                                    "", "Downloaded", env, now).s)

UpdateProgress(s, progress, status, env, now) ==
  IF ~s.initialized_ \/ s.current_notification_ = NullHandle
    THEN Returned(s)
    ELSE Returned(ShowProgressToast(s, "File Download", "Updating...", progress,
                                    status, "Downloaded", env, now).s)

\* ShowCompletionToast keeping the completion toast as the current notification
ShowCompletionToast_TracksToast(s, title, subtitle, message, env) ==
  IF ~s.initialized_
    THEN Returned(s)
    ELSE
      LET s1 == HideToast(s, env.hide_ok)
          xml == CreateCompletionToastXml(title, subtitle, message)
          h == s1.next_handle
          s2 == [s1 EXCEPT !.next_handle = h + 1,
                           !.current_notification_ = h,
                           !.native_calls = Append(@, SubmitCall(h, xml, env.fail # "show")),
                           !.submitted = [xml |-> xml, tag |-> ""]]
      IN IF ~LoadXml(xml) \/ env.fail = "build"
           THEN Returned(s1)
           ELSE Returned(s2)

ShowCompletionToast(s, title, subtitle, message, env) ==
  IF ~s.initialized_
    THEN Returned(s)
    ELSE
      LET s1 == HideToast(s, env.hide_ok)
          xml == CreateCompletionToastXml(title, subtitle, message)
          h == s1.next_handle
          s2 == [s1 EXCEPT !.next_handle = h + 1,
                           !.native_calls = Append(@, SubmitCall(h, xml, env.fail # "show")),
                           !.submitted = [xml |-> xml, tag |-> ""]]
      IN IF ~LoadXml(xml) \/ env.fail = "build"
           THEN Returned(s1)
           ELSE Returned(s2)

(***************************************************************************)
(* The dispatcher.                                                         *)
(***************************************************************************)
Success == [kind |-> "success", code |-> "", message |-> ""]

\* every error reported with one message
Error_OneMessage(code, message) ==
  [kind |-> "error", code |-> code, message |-> "Invalid arguments"]

Error(code, message) == [kind |-> "error", code |-> code, message |-> message]
\* a method name matching no branch answered as a call that did its work
NotImplemented_AsSuccess == Success

NotImplemented == [kind |-> "notImplemented", code |-> "", message |-> ""]

\* arguments->find(key) != arguments->end()
Has(arguments, key) == key \in DOMAIN arguments.map

\* std::get<T>(value) throws std::bad_variant_access on another alternative
GetThrows(arguments, key, type) == arguments.map[key].type # type

\* an optional key that is present is read with std::get<std::string>
OptionalThrows(arguments, key) ==
  Has(arguments, key) /\ GetThrows(arguments, key, "string")

OptionalString(arguments, key, default) ==
  IF Has(arguments, key) THEN arguments.map[key].s ELSE default

\* the dispatcher without its catch clauses: what the operation throws leaves
\* HandleMethodCall and no result is delivered
Reply_LetsExceptionEscape(r) ==
  [s |-> r.s,
   result |-> IF r.threw
                THEN [kind |-> "exception", code |-> "", message |-> r.what]
                ELSE Success]

\* the outcome of a controller operation, as the try block of the dispatcher
\* turns it into a result
Reply(r) ==
  [s |-> r.s,
   result |-> IF r.threw THEN Error("NATIVE_ERROR", r.what) ELSE Success]

HandleMethodCall(s, method_name, arguments, env, acquire_ok, now) ==
  IF method_name = "initialize"
    THEN Reply(Initialize(s, acquire_ok))
  ELSE IF method_name = "showProgressToast"
    THEN IF ~arguments.is_map
           THEN [s |-> s, result |-> Error("INVALID_ARGUMENTS", "Arguments must be a map")]
         ELSE IF ~(Has(arguments, "title") /\ Has(arguments, "subtitle")
                     /\ Has(arguments, "progress"))
           THEN [s |-> s, result |-> Error("INVALID_ARGUMENTS", "Missing required arguments")]
         ELSE IF \/ GetThrows(arguments, "title", "string")
                 \/ GetThrows(arguments, "subtitle", "string")
                 \/ GetThrows(arguments, "progress", "int")
                 \/ OptionalThrows(arguments, "status")
                 \/ OptionalThrows(arguments, "progressLabel")
           THEN [s |-> s, result |-> Error("NATIVE_ERROR", "bad variant access")]
         ELSE Reply(ShowProgressToast(s, arguments.map["title"].s,
                                      arguments.map["subtitle"].s,
                                      arguments.map["progress"].n,
                                      OptionalString(arguments, "status", ""),
                                      OptionalString(arguments, "progressLabel", "Progress"),
                                      env, now))
  ELSE IF method_name = "updateProgress"
    THEN IF ~arguments.is_map
           THEN [s |-> s, result |-> Error("INVALID_ARGUMENTS", "Arguments must be a map")]
         ELSE IF ~Has(arguments, "progress")
           THEN [s |-> s, result |-> Error("INVALID_ARGUMENTS", "Missing progress argument")]
         ELSE IF \/ GetThrows(arguments, "progress", "int")
                 \/ OptionalThrows(arguments, "status")
           THEN [s |-> s, result |-> Error("NATIVE_ERROR", "bad variant access")]
         ELSE Reply(UpdateProgress(s, arguments.map["progress"].n,
                                   OptionalString(arguments, "status", ""), env, now))
  ELSE IF method_name = "hideToast"
    THEN Reply(Returned(HideToast(s, env.hide_ok)))
  ELSE IF method_name = "showCompletionToast"
    THEN IF ~arguments.is_map
           THEN [s |-> s, result |-> Error("INVALID_ARGUMENTS", "Arguments must be a map")]
         ELSE IF ~(Has(arguments, "title") /\ Has(arguments, "subtitle"))
           THEN [s |-> s, result |-> Error("INVALID_ARGUMENTS", "Missing required arguments")]
         ELSE IF \/ GetThrows(arguments, "title", "string")
                 \/ GetThrows(arguments, "subtitle", "string")
                 \/ OptionalThrows(arguments, "message")
           THEN [s |-> s, result |-> Error("NATIVE_ERROR", "bad variant access")]
         ELSE Reply(ShowCompletionToast(s, arguments.map["title"].s,
                                        arguments.map["subtitle"].s,
                                        OptionalString(arguments, "message", ""), env))
  ELSE [s |-> s, result |-> NotImplemented]

(***************************************************************************)
(* The scenario: initialize, showProgressToast(progress 10),               *)
(* updateProgress(55, "Halfway"), showCompletionToast("Done", "file.zip",  *)
(* "Saved"), hideToast, with no native call failing.                       *)
(***************************************************************************)
\* the native calls the scenario is to make, and how many of them after each step
ScenarioCalls == << "acquire", "submit", "retract", "submit", "retract", "submit" >>
ScenarioKinds == << "none", "progress", "none", "progress", "none", "completion" >>
ScenarioLens == << 1, 2, 4, 6, 6 >>
ScenarioProgress == << 0, 10, 55, 0, 0 >>

ScenarioLen == Len(ScenarioLens)
Off == ScenarioLen + 1            \* the calls so far are not a prefix of the scenario

NoFailure == [hide_ok |-> TRUE, fail |-> "none"]

ScenarioShowArgs ==
  { MakeMap(f) : f \in { g \in ShowWellFormed :
                           g.progress = IntVal(10) /\ g.status.s \notin XmlSpecial } }

ScenarioStep(step, method_name, arguments, env, acquire_ok) ==
  \/ step = 1 /\ method_name = "initialize" /\ acquire_ok
  \/ step = 2 /\ method_name = "showProgressToast" /\ arguments \in ScenarioShowArgs
              /\ env = NoFailure
  \/ step = 3 /\ method_name = "updateProgress"
              /\ arguments = MakeMap([progress |-> IntVal(55), status |-> StrVal("Halfway")])
              /\ env = NoFailure
  \/ step = 4 /\ method_name = "showCompletionToast"
              /\ arguments = MakeMap(CompletionBase) /\ env = NoFailure
  \/ step = 5 /\ method_name = "hideToast" /\ env = NoFailure

(***************************************************************************)
(* Initial state: the plugin as constructed by RegisterWithRegistrar.      *)
(***************************************************************************)
\* the threads that may deliver a method call; the platform delivers every call
\* on one thread, ConcurrentSpec below lets two threads deliver calls
Threads == {1, 2}
Idle == [pc |-> "idle", after_hide |-> "idle"]

NoCall ==
  [method_name |-> "", well_formed |-> FALSE, shape |-> "ok", progress |-> 0, status |-> "",
   env |-> NoFailure, result |-> Success, submitted |-> NoToast, quiet |-> FALSE,
   pre |-> [initialized_ |-> FALSE, toast_notifier_ |-> NullHandle,
            current_notification_ |-> NullHandle, current_tag_ |-> ""],
   pre_len |-> 0]

Init ==
  /\ initialized_ = FALSE
  /\ toast_notifier_ = NullHandle
  /\ current_notification_ = NullHandle
  /\ current_tag_ = ""
  /\ native_calls = << >>
  /\ next_handle = 1
  /\ tags_assigned = EmptyBag
  /\ tick = 0
  /\ last = NoCall
  /\ shown = [title |-> "", subtitle |-> ""]
  /\ scenario = 0
  /\ threads = [t \in Threads |-> Idle]

(***************************************************************************)
(* One method call delivered to the plugin: the whole of HandleMethodCall. *)
(***************************************************************************)
\* the dispatcher handed the call to ShowProgressToast and the session was
\* initialized, so that a progress toast was asked for
AsksForProgressToast(method_name, result) ==
  /\ method_name = "showProgressToast"
  /\ initialized_
  /\ ~(result.kind = "error" /\ result.code = "INVALID_ARGUMENTS")
  /\ ~(result.kind = "error" /\ result.message = "bad variant access")

\* the call is the next step of the scenario, every step before it was
FollowsScenario(method_name, arguments, env, acquire_ok) ==
  /\ scenario < ScenarioLen
  /\ ScenarioStep(scenario + 1, method_name, arguments, env, acquire_ok)

\* a call the table of operations accepts: a map holding every required key,
\* each key the operation reads being of its type (initialize and hideToast
\* read no argument)
WellFormed(method_name, arguments) ==
  LET typed(key, type) == Has(arguments, key) /\ arguments.map[key].type = type
      optional(key) == ~Has(arguments, key) \/ arguments.map[key].type = "string"
  IN CASE method_name = "showProgressToast" ->
            /\ arguments.is_map
            /\ typed("title", "string") /\ typed("subtitle", "string")
            /\ typed("progress", "int")
            /\ optional("status") /\ optional("progressLabel")
       [] method_name = "updateProgress" ->
            arguments.is_map /\ typed("progress", "int") /\ optional("status")
       [] method_name = "showCompletionToast" ->
            /\ arguments.is_map
            /\ typed("title", "string") /\ typed("subtitle", "string")
            /\ optional("message")
       [] method_name \in {"initialize", "hideToast"} -> TRUE
       [] OTHER -> FALSE

\* the keys an operation requires, with the type std::get reads each as
RequiredKeys(method_name) ==
  CASE method_name = "showProgressToast" ->
         [title |-> "string", subtitle |-> "string", progress |-> "int"]
    [] method_name = "updateProgress" -> [progress |-> "int"]
    [] method_name = "showCompletionToast" -> [title |-> "string", subtitle |-> "string"]
    [] OTHER -> << >>

\* what a payload looks like to the operation it is sent to
ArgumentShape(method_name, arguments) ==
  LET required == RequiredKeys(method_name)
  IN IF ~arguments.is_map THEN "not_a_map"
     ELSE IF \E k \in DOMAIN required : ~Has(arguments, k) THEN "missing"
     ELSE IF \E k \in DOMAIN required : arguments.map[k].type # required[k]
       THEN "wrong_type"
     ELSE IF \E k \in DOMAIN arguments.map \ DOMAIN required :
               arguments.map[k].type # "string"
       THEN "wrong_optional"
     ELSE "ok"

\* the outcome of a native call that is not made is left at its default: Hide
\* is not called without a current notification, and a call the dispatcher
\* rejects reaches no operation
Relevant(method_name, arguments, env) ==
  /\ current_notification_ = NullHandle => env.hide_ok
  /\ ~WellFormed(method_name, arguments) => env = NoFailure
  /\ ( /\ arguments.is_map /\ Has(arguments, "status")
       /\ arguments.map["status"].s \in XmlSpecial ) => env.fail = "none"

\* A call that changes nothing leaves a state that differs from the state before
\* it in last alone, so every call that could follow it is explored from the
\* state before it: last.quiet marks such a state, and no step leaves it.
Dispatch(method_name, arguments, env, acquire_ok) ==
  /\ ~last.quiet
  /\ Relevant(method_name, arguments, env)
  /\ \E r \in {HandleMethodCall(Session, method_name, arguments, env, acquire_ok, tick)},
        well_formed \in {WellFormed(method_name, arguments)} :
       /\ \/ Len(r.s.native_calls) <= MaxCalls
          \/ FollowsScenario(method_name, arguments, env, acquire_ok)
       /\ initialized_' = r.s.initialized_
       /\ toast_notifier_' = r.s.toast_notifier_
       /\ current_notification_' = r.s.current_notification_
       /\ current_tag_' = r.s.current_tag_
       /\ native_calls' = r.s.native_calls
       /\ next_handle' = r.s.next_handle
       /\ tags_assigned' = r.s.tags_assigned
       /\ shown' = IF AsksForProgressToast(method_name, r.result)
                     THEN [title |-> arguments.map["title"].s,
                           subtitle |-> arguments.map["subtitle"].s]
                     ELSE shown
       /\ scenario' = IF FollowsScenario(method_name, arguments, env, acquire_ok)
                        THEN scenario + 1
                        ELSE Off
       /\ last' = [method_name |-> method_name,
                   well_formed |-> well_formed,
                   shape |-> ArgumentShape(method_name, arguments),
                   progress |-> IF well_formed /\ Has(arguments, "progress")
                                  THEN arguments.map["progress"].n ELSE 0,
                   status |-> IF well_formed
                                THEN OptionalString(arguments, "status", "") ELSE "",
                   env |-> env,
                   result |-> r.result,
                   submitted |-> r.s.submitted,
                   pre |-> [initialized_ |-> initialized_,
                            toast_notifier_ |-> toast_notifier_,
                            current_notification_ |-> current_notification_,
                            current_tag_ |-> current_tag_],
                   pre_len |-> Len(native_calls),
                   quiet |-> r.s = Session /\ shown' = shown /\ scenario' = scenario]
       /\ UNCHANGED << tick, threads >>

InitializeCall ==
  \E arguments \in NoArgs, acquire_ok \in BOOLEAN :
    Dispatch("initialize", arguments, NoFailure, acquire_ok)

ShowProgressToastCall ==
  \E arguments \in ShowArgs, env \in Envs :
    Dispatch("showProgressToast", arguments, env, TRUE)

UpdateProgressCall ==
  \E arguments \in UpdateArgs, env \in Envs :
    Dispatch("updateProgress", arguments, env, TRUE)

HideToastCall ==
  \E arguments \in NoArgs, hide_ok \in BOOLEAN :
    Dispatch("hideToast", arguments, [hide_ok |-> hide_ok, fail |-> "none"], TRUE)

ShowCompletionToastCall ==
  \E arguments \in CompletionArgs, env \in Envs :
    Dispatch("showCompletionToast", arguments, env, TRUE)

UnknownMethodCall ==
  \E method_name \in UnknownMethods, arguments \in NoArgs :
    Dispatch(method_name, arguments, NoFailure, TRUE)

\* time passes between two method calls; the clock is read only where a tag is
\* made, so the ticks no tag has been made in are not told apart
TickElapses ==
  /\ ~last.quiet
  /\ tick < MaxTick
  /\ BagIn(MakeTag(tick), tags_assigned)
  /\ tick' = tick + 1
  /\ UNCHANGED << initialized_, toast_notifier_, current_notification_, current_tag_,
                  native_calls, next_handle, tags_assigned, last, shown, scenario,
                  threads >>

Next ==
  \/ InitializeCall
  \/ ShowProgressToastCall
  \/ UpdateProgressCall
  \/ HideToastCall
  \/ ShowCompletionToastCall
  \/ UnknownMethodCall
  \/ TickElapses

Spec == Init /\ [][Next]_vars

(***************************************************************************)
(* Method calls delivered by two threads at once.  The plugin has no lock, *)
(* so the statements of two calls interleave; each step below is one       *)
(* statement (or one test) of the operations, reading the fields as they   *)
(* are when it runs.  The calls carry well-formed arguments.  Interleaving *)
(* whole statements is the least a data race can do.                       *)
(***************************************************************************)
At(t, pc) == threads[t].pc = pc

Goto(t, pc) == threads' = [threads EXCEPT ![t].pc = pc]

\* HandleMethodCall is entered: initialize, showProgressToast, updateProgress
\* or hideToast
Begin(t) ==
  /\ At(t, "idle")
  /\ Len(native_calls) < MaxCalls
  /\ \E pc \in {"init_acquire", "show_test", "update_test", "hide_test"} :
        threads' = [threads EXCEPT ![t] = [pc |-> pc, after_hide |-> "idle"]]
  /\ UNCHANGED << initialized_, toast_notifier_, current_notification_, current_tag_,
                  native_calls, next_handle, tags_assigned, tick, last, shown, scenario >>

\* Initialize: the acquisition and the assignments after it
InitAcquire(t) ==
  /\ At(t, "init_acquire")
  /\ \E acquire_ok \in BOOLEAN :
        /\ native_calls' = Append(native_calls, AcquireCall(acquire_ok))
        /\ initialized_' = acquire_ok
        /\ toast_notifier_' = IF acquire_ok THEN Notifier ELSE toast_notifier_
  /\ Goto(t, "idle")
  /\ UNCHANGED << current_notification_, current_tag_, next_handle, tags_assigned,
                  tick, last, shown, scenario >>

\* ShowProgressToast: if (!initialized_) throw; then HideToast()
ShowTest(t) ==
  /\ At(t, "show_test")
  /\ threads' = [threads EXCEPT ![t] =
                   IF initialized_
                     THEN [pc |-> "hide_test", after_hide |-> "show_build"]
                     ELSE Idle]
  /\ UNCHANGED << initialized_, toast_notifier_, current_notification_, current_tag_,
                  native_calls, next_handle, tags_assigned, tick, last, shown, scenario >>

\* UpdateProgress: if (!initialized_ || !current_notification_) return; then
\* ShowProgressToast
UpdateTest(t) ==
  /\ At(t, "update_test")
  /\ Goto(t, IF ~initialized_ \/ current_notification_ = NullHandle
               THEN "idle" ELSE "show_test")
  /\ UNCHANGED << initialized_, toast_notifier_, current_notification_, current_tag_,
                  native_calls, next_handle, tags_assigned, tick, last, shown, scenario >>

\* HideToast: if (current_notification_ && toast_notifier_)
HideTest(t) ==
  /\ At(t, "hide_test")
  /\ Goto(t, IF current_notification_ # NullHandle /\ toast_notifier_ # NullHandle
               THEN "hide_call" ELSE threads[t].after_hide)
  /\ UNCHANGED << initialized_, toast_notifier_, current_notification_, current_tag_,
                  native_calls, next_handle, tags_assigned, tick, last, shown, scenario >>

\* HideToast: toast_notifier_.Hide(current_notification_), errors ignored; Hide
\* of a null reference throws
HideCall(t) ==
  /\ At(t, "hide_call")
  /\ \E hide_ok \in BOOLEAN :
        /\ current_notification_ = NullHandle => ~hide_ok
        /\ native_calls' = Append(native_calls, RetractCall(current_notification_, hide_ok))
  /\ Goto(t, "hide_clear")
  /\ UNCHANGED << initialized_, toast_notifier_, current_notification_, current_tag_,
                  next_handle, tags_assigned, tick, last, shown, scenario >>

\* HideToast: current_notification_ = nullptr; current_tag_.clear()
HideClear(t) ==
  /\ At(t, "hide_clear")
  /\ current_notification_' = NullHandle
  /\ current_tag_' = ""
  /\ Goto(t, threads[t].after_hide)
  /\ UNCHANGED << initialized_, toast_notifier_, native_calls, next_handle,
                  tags_assigned, tick, last, shown, scenario >>

\* ShowProgressToast: the markup and the XmlDocument, which may throw
ShowBuild(t) ==
  /\ At(t, "show_build")
  /\ \E built \in BOOLEAN : Goto(t, IF built THEN "show_assign" ELSE "idle")
  /\ UNCHANGED << initialized_, toast_notifier_, current_notification_, current_tag_,
                  native_calls, next_handle, tags_assigned, tick, last, shown, scenario >>

\* ShowProgressToast: current_notification_ = ToastNotification(xmlDoc);
\* current_tag_ = "progress_" + ...
ShowAssign(t) ==
  /\ At(t, "show_assign")
  /\ current_notification_' = next_handle
  /\ next_handle' = next_handle + 1
  /\ current_tag_' = MakeTag(tick)
  /\ tags_assigned' = tags_assigned (+) SetToBag({MakeTag(tick)})
  /\ Goto(t, "show_call")
  /\ UNCHANGED << initialized_, toast_notifier_, native_calls, tick, last, shown,
                  scenario >>

\* ShowProgressToast: toast_notifier_.Show(current_notification_); Show of a
\* null reference throws
ShowCall(t) ==
  /\ At(t, "show_call")
  /\ \E show_ok \in BOOLEAN :
        /\ current_notification_ = NullHandle => ~show_ok
        /\ native_calls' =
             Append(native_calls,
                    SubmitCall(current_notification_,
                               CreateProgressToastXml("Download", "file.zip", 10, "",
                                                      "Progress"),
                               show_ok))
  /\ Goto(t, "idle")
  /\ UNCHANGED << initialized_, toast_notifier_, current_notification_, current_tag_,
                  next_handle, tags_assigned, tick, last, shown, scenario >>

ConcurrentNext ==
  \E t \in Threads :
    \/ Begin(t)
    \/ InitAcquire(t)
    \/ ShowTest(t)
    \/ UpdateTest(t)
    \/ HideTest(t)
    \/ HideCall(t)
    \/ HideClear(t)
    \/ ShowBuild(t)
    \/ ShowAssign(t)
    \/ ShowCall(t)

ConcurrentSpec == Init /\ [][ConcurrentNext]_vars

TypeOK ==
  /\ initialized_ \in BOOLEAN
  /\ toast_notifier_ \in {NullHandle, Notifier}
  /\ current_notification_ \in 0..(next_handle - 1)
  /\ Len(native_calls) <= MaxCalls \/ scenario # Off
  /\ tick \in 0..MaxTick
  /\ scenario \in 0..ScenarioLen \cup {Off}

(***************************************************************************)
(* What the last method call did.                                          *)
(***************************************************************************)
\* the native calls the last method call made
NewCalls == SubSeq(native_calls, last.pre_len + 1, Len(native_calls))

\* the last method call left the four fields of the plugin as they were
FieldsUnchanged ==
  /\ initialized_ = last.pre.initialized_
  /\ toast_notifier_ = last.pre.toast_notifier_
  /\ current_notification_ = last.pre.current_notification_
  /\ current_tag_ = last.pre.current_tag_

\* the session is in Ready or Uninitialized: it tracks no notification
NoActiveNotification == current_notification_ = NullHandle /\ current_tag_ = ""

\* some initialize call has succeeded
EverInitialized ==
  \E i \in DOMAIN native_calls : native_calls[i].op = "acquire" /\ native_calls[i].ok

\* the progress toasts handed to Show for which no Hide has been called since
Outstanding ==
  { native_calls[i].handle : i \in
      { j \in DOMAIN native_calls :
          /\ native_calls[j].op = "submit"
          /\ native_calls[j].kind = "progress"
          /\ \A k \in (j + 1)..Len(native_calls) :
                ~(native_calls[k].op = "retract"
                    /\ native_calls[k].handle = native_calls[j].handle) } }

\* the last call ran the show path of ShowProgressToast on an initialized session
RanShowPath ==
  \/ /\ last.method_name = "showProgressToast"
     /\ last.well_formed /\ last.pre.initialized_
  \/ /\ last.method_name = "updateProgress"
     /\ last.well_formed /\ last.pre.initialized_
     /\ last.pre.current_notification_ # NullHandle

(***************************************************************************)
(* C1. After any sequence of calls the session tracks at most one          *)
(* notification: the progress toasts handed to Show and not hidden since   *)
(* are exactly the current notification, if any.  Every Show of a progress *)
(* toast made while an earlier one was still tracked comes right after the *)
(* Hide of that earlier one.                                               *)
(***************************************************************************)
OutstandingAt(n) ==
  { native_calls[i].handle : i \in
      { j \in 1..n :
          /\ native_calls[j].op = "submit"
          /\ native_calls[j].kind = "progress"
          /\ \A k \in (j + 1)..n :
                ~(native_calls[k].op = "retract"
                    /\ native_calls[k].handle = native_calls[j].handle) } }

C1_SubmitPrecededByRetract ==
  /\ Cardinality(Outstanding) <= 1
  /\ Outstanding = IF current_notification_ = NullHandle
                     THEN {} ELSE {current_notification_}
  /\ \A i \in DOMAIN native_calls :
        (native_calls[i].op = "submit" /\ native_calls[i].kind = "progress") =>
          \A h \in OutstandingAt(i - 2) :
            /\ native_calls[i - 1].op = "retract"
            /\ native_calls[i - 1].handle = h
  /\ (RanShowPath /\ last.pre.current_notification_ # NullHandle) =>
        /\ Len(NewCalls) >= 1
        /\ NewCalls[1].op = "retract"
        /\ NewCalls[1].handle = last.pre.current_notification_
        /\ \A i \in DOMAIN NewCalls : NewCalls[i].op = "submit" => i = 2

C1_Witness ==
  /\ last.method_name = "showProgressToast"
  /\ last.pre.current_notification_ # NullHandle
  /\ Len(NewCalls) = 2
  /\ NewCalls[1].op = "retract" /\ NewCalls[2].op = "submit"

(***************************************************************************)
(* C2. A showProgressToast call on an initialized session that fails in    *)
(* building or showing the toast returns an error and leaves the session   *)
(* in Ready: no current notification and no tag.                           *)
(***************************************************************************)
C2_FailedShowEndsReady ==
  ( /\ last.method_name = "showProgressToast"
    /\ last.well_formed
    /\ last.pre.initialized_
    /\ last.env.fail # "none" \/ last.status \in XmlSpecial )
  => /\ last.result.kind = "error"
     /\ NoActiveNotification

(***************************************************************************)
(* C3. showProgressToast on a session that is not initialized returns an   *)
(* error, makes no native call and leaves the session as it was.           *)
(***************************************************************************)
C3_ShowBeforeInitializeFails ==
  (last.method_name = "showProgressToast" /\ ~last.pre.initialized_)
  => /\ last.result.kind = "error"
     /\ NewCalls = << >>
     /\ FieldsUnchanged

C3_Witness ==
  /\ last.method_name = "showProgressToast"
  /\ last.well_formed
  /\ ~last.pre.initialized_
  /\ last.result = Error("NATIVE_ERROR", "Windows notifications not initialized")

(***************************************************************************)
(* C4. While no initialize call has succeeded, every well-formed           *)
(* updateProgress, hideToast and showCompletionToast call returns success, *)
(* makes no native call and leaves the session as it was, and every        *)
(* well-formed showProgressToast call returns an error.                    *)
(***************************************************************************)
C4_SilentBeforeInitialize ==
  (~EverInitialized /\ last.well_formed)
  => /\ last.method_name \in {"updateProgress", "hideToast", "showCompletionToast"}
          => /\ last.result = Success
             /\ NewCalls = << >>
             /\ FieldsUnchanged
     /\ last.method_name = "showProgressToast" => last.result.kind = "error"

C4_Witness ==
  /\ ~EverInitialized
  /\ Len(native_calls) > 0
  /\ last.method_name = "updateProgress"
  /\ last.well_formed
  /\ last.result = Success

(***************************************************************************)
(* C5. updateProgress on an initialized session with no current            *)
(* notification returns success, makes no native call and leaves the       *)
(* session in Ready.                                                       *)
(***************************************************************************)
C5_UpdateWithoutToastIsNoOp ==
  ( /\ last.method_name = "updateProgress"
    /\ last.well_formed
    /\ last.pre.initialized_
    /\ last.pre.current_notification_ = NullHandle )
  => /\ last.result = Success
     /\ NewCalls = << >>
     /\ initialized_
     /\ NoActiveNotification

C5_Witness ==
  /\ last.method_name = "updateProgress"
  /\ last.well_formed
  /\ last.pre.initialized_
  /\ last.pre.current_notification_ = NullHandle
  /\ last.result = Success

(***************************************************************************)
(* C6. After hideToast, whether Hide returned or threw, the session has no *)
(* current notification and no tag, and the caller receives success.       *)
(***************************************************************************)
C6_HideAlwaysClears ==
  last.method_name = "hideToast"
  => /\ NoActiveNotification
     /\ last.result = Success

C6_Witness ==
  /\ last.method_name = "hideToast"
  /\ Len(NewCalls) = 1
  /\ NewCalls[1].op = "retract" /\ ~NewCalls[1].ok
  /\ NoActiveNotification

(***************************************************************************)
(* C7. Every well-formed updateProgress, hideToast and showCompletionToast *)
(* call returns success, whatever native call fails; a failure of the      *)
(* acquisition is returned as an error by initialize, and a failure of     *)
(* building or showing the toast by showProgressToast.                     *)
(***************************************************************************)
C7_FailuresSwallowed ==
  /\ ( /\ last.well_formed
       /\ last.method_name \in {"updateProgress", "hideToast", "showCompletionToast"} )
     => last.result = Success
  /\ ( /\ last.method_name = "initialize"
       /\ \E i \in DOMAIN NewCalls : ~NewCalls[i].ok )
     => last.result.kind = "error" /\ last.result.code = "NATIVE_ERROR"
  /\ ( /\ last.method_name = "showProgressToast"
       /\ \E i \in DOMAIN NewCalls : NewCalls[i].op = "submit" /\ ~NewCalls[i].ok )
     => last.result.kind = "error" /\ last.result.code = "NATIVE_ERROR"

C7_Witness ==
  /\ last.method_name = "updateProgress"
  /\ Len(NewCalls) = 2
  /\ ~NewCalls[1].ok /\ ~NewCalls[2].ok
  /\ last.result = Success

(***************************************************************************)
(* C8. updateProgress on an initialized session with a current             *)
(* notification makes exactly one Hide of it followed by exactly one Show  *)
(* of a progress toast carrying the new progress and status; the scenario  *)
(* initialize, showProgressToast(10), updateProgress(55),                  *)
(* showCompletionToast, hideToast makes the calls acquire, submit,         *)
(* retract, submit, retract, submit and no other.                          *)
(***************************************************************************)
UpdateActs ==
  /\ last.method_name = "updateProgress"
  /\ last.well_formed
  /\ last.pre.initialized_
  /\ last.pre.current_notification_ # NullHandle

\* the last call made one Hide of the notification that was current
HidPrevious ==
  /\ Len(NewCalls) >= 1
  /\ NewCalls[1].op = "retract"
  /\ NewCalls[1].handle = last.pre.current_notification_

\* the last call made, second, one Show of a progress toast carrying the
\* progress and the status it was called with
ShowedNewProgress ==
  /\ Len(NewCalls) = 2
  /\ NewCalls[2].op = "submit"
  /\ NewCalls[2].kind = "progress"
  /\ last.submitted.xml.kind = "progress"
  /\ last.submitted.xml.text[3] = last.status
  /\ last.submitted.xml.progress[1].value = [num |-> last.progress, den |-> 100]
  /\ last.submitted.xml.progress[1].status = last.status

\* the calls made so far are those the scenario expects after its first
\* `scenario` steps, each retract being of the toast submitted just before
ScenarioAsExpected ==
  scenario \in 1..ScenarioLen =>
    /\ Len(native_calls) = ScenarioLens[scenario]
    /\ \A i \in DOMAIN native_calls :
          /\ native_calls[i].op = ScenarioCalls[i]
          /\ native_calls[i].kind = ScenarioKinds[i]
          /\ native_calls[i].ok
          /\ native_calls[i].op = "retract" =>
                native_calls[i].handle = native_calls[i - 1].handle
    /\ scenario \in {2, 3} =>
          last.submitted.xml.progress[1].value.num = ScenarioProgress[scenario]
    /\ scenario = 4 => last.submitted.xml.kind = "completion"
    /\ scenario = 5 => NewCalls = << >>

\* the claim as stated
C8_UpdateAlwaysResubmits ==
  /\ UpdateActs => HidPrevious /\ ShowedNewProgress
  /\ ScenarioAsExpected

\* Amended: the Show is made unless building the toast fails (the markup does
\* not load, or an object cannot be created); then the Hide is the only call
BuildFailed == last.env.fail = "build" \/ last.status \in XmlSpecial

C8_UpdateReplacesToast ==
  /\ UpdateActs =>
       /\ HidPrevious
       /\ IF BuildFailed THEN Len(NewCalls) = 1 ELSE ShowedNewProgress
  /\ ScenarioAsExpected

C8_Witness ==
  /\ scenario = ScenarioLen
  /\ Len(native_calls) = Len(ScenarioCalls)

(***************************************************************************)
(* C9. The progress toast updateProgress shows carries the title and the   *)
(* subtitle of the most recent showProgressToast call.                     *)
(***************************************************************************)
C9_UpdateKeepsTitle ==
  (UpdateActs /\ last.submitted.xml.kind = "progress")
  => /\ last.submitted.xml.text[1] = shown.title
     /\ last.submitted.xml.text[2] = shown.subtitle

(***************************************************************************)
(* C10. A successful initialize leaves the session in Ready, whatever the  *)
(* state before: initialized, no current notification, no tag.             *)
(***************************************************************************)
InitializeSucceeded ==
  last.method_name = "initialize" /\ last.result = Success

\* the claim as stated
C10_InitializeEndsReady ==
  InitializeSucceeded => initialized_ /\ NoActiveNotification

\* Amended: a successful initialize sets initialized_ and the notifier and
\* leaves the current notification and its tag as they were
C10_InitializeKeepsNotification ==
  InitializeSucceeded
  => /\ initialized_
     /\ toast_notifier_ # NullHandle
     /\ current_notification_ = last.pre.current_notification_
     /\ current_tag_ = last.pre.current_tag_

C10_Witness ==
  /\ InitializeSucceeded
  /\ last.pre.current_notification_ # NullHandle
  /\ current_notification_ # NullHandle

(***************************************************************************)
(* C11. When the acquisition of the notifier fails, initialize returns an  *)
(* error and leaves initialized_ false, also when it was true before; an   *)
(* initialize whose acquisition succeeds returns success and sets it true, *)
(* also after a failed one.                                                *)
(***************************************************************************)
C11_FailedInitializeLeavesUninitialized ==
  last.method_name = "initialize"
  => /\ Len(NewCalls) = 1
     /\ NewCalls[1].op = "acquire"
     /\ IF NewCalls[1].ok
          THEN last.result = Success /\ initialized_
          ELSE last.result.kind = "error" /\ ~initialized_

\* a successful initialize after one that failed on an initialized session
C11_Witness ==
  /\ InitializeSucceeded
  /\ ~last.pre.initialized_
  /\ initialized_
  /\ \E i, j \in 1..last.pre_len :
        /\ i < j
        /\ native_calls[i].op = "acquire" /\ native_calls[i].ok
        /\ native_calls[j].op = "acquire" /\ ~native_calls[j].ok

(***************************************************************************)
(* C12. While initialized_ is false, no showProgressToast, updateProgress, *)
(* hideToast or showCompletionToast call makes a Show or a Hide call.      *)
(***************************************************************************)
C12_NoNativeCallWhileUninitialized ==
  ( /\ ~last.pre.initialized_
    /\ last.method_name \in {"showProgressToast", "updateProgress", "hideToast",
                             "showCompletionToast"} )
  => \A i \in DOMAIN NewCalls : NewCalls[i].op \notin {"submit", "retract"}

(***************************************************************************)
(* C13. Every tag given to a notification differs from every tag given     *)
(* earlier, whatever the time between the calls.                           *)
(***************************************************************************)
C13_TagsDistinct ==
  \A t \in BagToSet(tags_assigned) : CopiesIn(t, tags_assigned) = 1

(***************************************************************************)
(* C14. Every method call, whatever its name, payload, the state of the    *)
(* session and the native call that fails, is answered with one result:    *)
(* success, an error with a code, or not-implemented; no exception leaves  *)
(* HandleMethodCall.                                                       *)
(***************************************************************************)
C14_AlwaysOneStructuredResult ==
  last.method_name # ""
  => \/ last.result.kind = "success"
     \/ last.result.kind = "notImplemented"
     \/ /\ last.result.kind = "error"
        /\ last.result.code \in {"INVALID_ARGUMENTS", "NATIVE_ERROR"}

\* a native call threw inside an operation that rethrows
C14_Witness ==
  /\ last.method_name = "showProgressToast"
  /\ Len(NewCalls) >= 1
  /\ ~NewCalls[Len(NewCalls)].ok
  /\ last.result = Error("NATIVE_ERROR", "Failed to show progress toast")

(***************************************************************************)
(* C15. A call of showProgressToast, updateProgress or showCompletionToast *)
(* with a required key absent is answered INVALID_ARGUMENTS; with a        *)
(* payload that is not a map, INVALID_ARGUMENTS "Arguments must be a map"; *)
(* a method name that is none of the five is answered not-implemented.  In *)
(* all these cases the session is left as it was and no native call made.  *)
(***************************************************************************)
ReadsArguments ==
  last.method_name \in {"showProgressToast", "updateProgress", "showCompletionToast"}

NothingRan == NewCalls = << >> /\ FieldsUnchanged

\* the caller was answered with an error of this code and message
AnsweredError(code, message) ==
  /\ last.result.kind = "error"
  /\ last.result.code = code
  /\ last.result.message = message

C15_RejectsIncompleteRequests ==
  /\ (ReadsArguments /\ last.shape = "missing")
       => /\ last.result.kind = "error"
          /\ last.result.code = "INVALID_ARGUMENTS"
          /\ NothingRan
  /\ (ReadsArguments /\ last.shape = "not_a_map")
       => /\ AnsweredError("INVALID_ARGUMENTS", "Arguments must be a map")
          /\ NothingRan
  /\ last.method_name \in UnknownMethods
       => /\ last.result.kind = "notImplemented"
          /\ NothingRan

\* a showProgressToast without a required key, sent while a toast is shown
C15_Witness ==
  /\ last.method_name = "showProgressToast"
  /\ last.shape = "missing"
  /\ last.pre.initialized_
  /\ last.pre.current_notification_ # NullHandle
  /\ AnsweredError("INVALID_ARGUMENTS", "Missing required arguments")

(***************************************************************************)
(* C16. A call whose required key is present with a value of the wrong     *)
(* type is answered INVALID_ARGUMENTS, and the operation does not run.     *)
(***************************************************************************)
C16_WrongTypeIsInvalidArguments ==
  (ReadsArguments /\ last.shape = "wrong_type")
  => /\ last.result.kind = "error"
     /\ last.result.code = "INVALID_ARGUMENTS"
     /\ NothingRan

(***************************************************************************)
(* C17. For each of the five methods, a payload that is not a map is       *)
(* answered INVALID_ARGUMENTS "Arguments must be a map" and the operation  *)
(* does not run.                                                           *)
(***************************************************************************)
FiveMethods ==
  {"initialize", "showProgressToast", "updateProgress", "hideToast",
   "showCompletionToast"}

\* the claim as stated
C17_NonMapAlwaysRejected ==
  (last.method_name \in FiveMethods /\ last.shape = "not_a_map")
  => /\ AnsweredError("INVALID_ARGUMENTS", "Arguments must be a map")
     /\ NothingRan

\* Amended: the three methods that read arguments reject a payload that is not
\* a map; initialize and hideToast do not read the payload and run as they do
\* with a map
C17_NonMapRejectedWhereRead ==
  last.shape = "not_a_map"
  => /\ ReadsArguments
       => /\ AnsweredError("INVALID_ARGUMENTS", "Arguments must be a map")
          /\ NothingRan
     /\ last.method_name = "initialize"
       => /\ Len(NewCalls) = 1
          /\ NewCalls[1].op = "acquire"
          /\ IF NewCalls[1].ok
               THEN last.result.kind = "success"
               ELSE AnsweredError("NATIVE_ERROR",
                                  "Failed to initialize Windows notifications")
     /\ last.method_name = "hideToast"
       => /\ last.result.kind = "success"
          /\ NoActiveNotification
          /\ IF /\ last.pre.current_notification_ # NullHandle
                /\ last.pre.toast_notifier_ # NullHandle
               THEN HidPrevious /\ Len(NewCalls) = 1
               ELSE NewCalls = << >>

\* a hideToast sent with a payload that is not a map hides the current toast
C17_Witness ==
  /\ last.method_name = "hideToast"
  /\ last.shape = "not_a_map"
  /\ HidPrevious
  /\ last.result = Success

(***************************************************************************)
(* C18. showCompletionToast on an initialized session hides the current    *)
(* progress toast if there is one, then shows the completion toast without *)
(* keeping it: after the call, whether the toast was shown or not, there   *)
(* is no current notification and no tag; a hideToast that follows makes   *)
(* no native call.                                                         *)
(***************************************************************************)
CompletionActs ==
  /\ last.method_name = "showCompletionToast"
  /\ last.well_formed
  /\ last.pre.initialized_

\* the Show calls the last method call made
NewSubmits == { i \in DOMAIN NewCalls : NewCalls[i].op = "submit" }

C18_CompletionIsNotTracked ==
  /\ CompletionActs
       => /\ last.result = Success
          /\ NoActiveNotification
          /\ IF last.pre.current_notification_ # NullHandle
               THEN HidPrevious
               ELSE \A i \in DOMAIN NewCalls : NewCalls[i].op # "retract"
          /\ \A i \in NewSubmits :
                /\ i = Len(NewCalls)
                /\ NewCalls[i].kind = "completion"
                /\ last.submitted.xml.kind = "completion"
                /\ last.submitted.tag = ""
          /\ Cardinality(NewSubmits) = IF last.env.fail = "build" THEN 0 ELSE 1
          /\ Outstanding = {}
  /\ (last.method_name = "hideToast" /\ last.pre.current_notification_ = NullHandle)
       => NewCalls = << >>

\* the current toast hidden and a completion toast whose Show failed
C18_Witness ==
  /\ CompletionActs
  /\ last.pre.current_notification_ # NullHandle
  /\ Len(NewCalls) = 2
  /\ NewCalls[2].op = "submit" /\ ~NewCalls[2].ok
  /\ NoActiveNotification

(***************************************************************************)
(* C19. The progress element of every progress toast handed to Show        *)
(* carries the value progress/100, which lies in [0, 1], and the override  *)
(* string "<progress>%".                                                   *)
(***************************************************************************)
C19_ProgressValueNormalized ==
  last.submitted.xml.kind = "progress"
  => /\ last.submitted.xml.progress[1].value = [num |-> last.progress, den |-> 100]
     /\ 0 <= last.submitted.xml.progress[1].value.num
     /\ last.submitted.xml.progress[1].value.num
          <= last.submitted.xml.progress[1].value.den
     /\ last.submitted.xml.progress[1].valueStringOverride
          = ToString(last.progress) \o "%"

(***************************************************************************)
(* C20. When two threads deliver calls at once, hiding the previous toast  *)
(* and showing the new one is one step to a concurrent updateProgress or   *)
(* hideToast: no interleaving leaves a toast that was shown, is not the    *)
(* current notification and was never hidden, and none hides one           *)
(* notification twice.                                                     *)
(***************************************************************************)
\* the toasts shown, not hidden since, that the plugin no longer holds
Leaked ==
  { native_calls[i].handle : i \in
      { j \in DOMAIN native_calls :
          /\ native_calls[j].op = "submit"
          /\ native_calls[j].ok
          /\ \A k \in (j + 1)..Len(native_calls) :
                ~(native_calls[k].op = "retract"
                    /\ native_calls[k].handle = native_calls[j].handle) } }
  \ {current_notification_}

HiddenTwice ==
  \E i, j \in DOMAIN native_calls :
    /\ i < j
    /\ native_calls[i].op = "retract" /\ native_calls[j].op = "retract"
    /\ native_calls[i].handle # NullHandle
    /\ native_calls[i].handle = native_calls[j].handle

C20_ShowAppearsAtomic == Leaked = {} /\ ~HiddenTwice

(***************************************************************************)
(* C21. At the native service at most one progress toast of the plugin is  *)
(* displayed (shown with success and not hidden with success since) at any *)
(* time, after any sequence of calls, also when Hide calls fail.           *)
(***************************************************************************)
\* the progress toasts Show returned normally for, with no Hide of them that
\* returned normally since
Displayed ==
  { native_calls[i].handle : i \in
      { j \in DOMAIN native_calls :
          /\ native_calls[j].op = "submit"
          /\ native_calls[j].kind = "progress"
          /\ native_calls[j].ok
          /\ \A k \in (j + 1)..Len(native_calls) :
                ~(native_calls[k].op = "retract"
                    /\ native_calls[k].ok
                    /\ native_calls[k].handle = native_calls[j].handle) } }

\* the claim as stated
C21_AtMostOneDisplayed == Cardinality(Displayed) <= 1

\* some Hide call has thrown
SomeHideFailed ==
  \E i \in DOMAIN native_calls : native_calls[i].op = "retract" /\ ~native_calls[i].ok

\* Amended: while no Hide call has failed at most one progress toast is
\* displayed; in every case every displayed progress toast but the current
\* notification has had a Hide call made for it
C21_AtMostOneNotAskedHidden ==
  /\ ~SomeHideFailed => Cardinality(Displayed) <= 1
  /\ Cardinality(Displayed \cap Outstanding) <= 1
  /\ Displayed \cap Outstanding \subseteq {current_notification_}
  /\ \A h \in Displayed \ {current_notification_} :
        \E i \in DOMAIN native_calls :
          /\ native_calls[i].op = "retract"
          /\ native_calls[i].handle = h
          /\ ~native_calls[i].ok

\* a toast whose Hide failed stays displayed next to the one that replaced it
C21_Witness ==
  /\ last.method_name = "showProgressToast"
  /\ last.pre.current_notification_ # NullHandle
  /\ Len(NewCalls) = 2
  /\ ~NewCalls[1].ok /\ NewCalls[2].ok
  /\ Cardinality(Displayed) = 2
  /\ Displayed \cap Outstanding = {current_notification_}

(***************************************************************************)
(* C22. Between method calls the tag is non-empty exactly when there is a  *)
(* current notification: the two are assigned together and cleared         *)
(* together.                                                               *)
(***************************************************************************)
C22_TagIffNotification ==
  current_tag_ # "" <=> current_notification_ # NullHandle

\* a call that cleared a notification and its tag
C22_Witness ==
  /\ last.pre.current_notification_ # NullHandle
  /\ last.pre.current_tag_ # ""
  /\ Len(NewCalls) >= 1
  /\ NewCalls[1].op = "retract"
  /\ current_notification_ = NullHandle
  /\ current_tag_ = ""

====
